---- MODULE Spec2Model ----
(***************************************************************************)
(* A model of the riptide agent (riptide_agent/src/main.rs) with the parts *)
(* of riptide_database, riptide_config and riptide_cli it depends on:      *)
(*   - the share store and the backing files on disk,                      *)
(*   - handle_message and upload_file (one handler invocation per task),   *)
(*   - the expiry sweeper (monitor task of main + remove_expired_shares),  *)
(*   - handle_ws (the session dispatcher) and run (the supervisor).        *)
(* Time is in seconds since the epoch.  Failures of the environment (the   *)
(* database, the file system, the HTTP endpoint, the websocket) are inputs *)
(* chosen by \E in the action that performs the call.                      *)
(***************************************************************************)
EXTENDS Integers, Sequences, FiniteSets, TLC

(* ------------------------------ bounds -------------------------------- *)
\* file ids in use are 1..MaxFileId
MaxFileId == 2
\* max_upload_attempts ranges over 0..MaxAttempts in SpecHandler
MaxAttempts == 2
\* handler tasks per session
MaxTasks == 2
\* the clock advances at most MaxTicks times
MaxTicks == 4
\* shares created by the cli during a run
MaxCliShares == 1
\* frames read in one session before the one that ends it
MaxFrames == 3

(* ------------------------- program constants -------------------------- *)
\* riptide_agent/src/main.rs:49
MIN_RECONNECT_DELAY == 5000
\* riptide_agent/src/main.rs:362, the sweeper's interval in seconds
SWEEP_INTERVAL == 60
\* riptide_agent/src/main.rs:183, capacity of the response channel
CHANNEL_CAPACITY == 20

FileIds == 1..MaxFileId
Tasks == 1..MaxTasks

\* the clock is observed every half sweep interval
TickStep == SWEEP_INTERVAL \div 2

\* riptide_cli/src/main.rs:125  exp = crt + (share_time * 60 * 60)
ShareExp(crt, share_time) == crt + (share_time * 60 * 60)

\* the first instant of a run: shares of one hour created at 0.. have
\* exp around this instant
StartTime == ShareExp(0, 1)

VARIABLES
    now,        \* the system clock, epoch seconds
    ticks,      \* how often the clock has advanced
    shares,     \* the shares table: a set of Share records, file_id unique
    files,      \* ids f such that file_store_location/f exists
    cliShares,  \* how many shares the cli has created
    config,     \* the loaded Config
    swPc,       \* the sweeper: "sleep", "query", "delete"
    swWake,     \* when the sweeper's sleep ends
    swList,     \* the Vec<Share> remove_expired_shares iterates over
    swExpired,  \* history: shares with exp < now when the sweep queried
    swKept,     \* history: shares with exp >= now when the sweep queried
    swRemoved,  \* history: records the sweep removed from the table
    swTried,    \* history: ids whose file the sweep called remove_file on
    swDeleted,  \* history: ids whose file the sweep deleted
    swComplete, \* history: a sweep has returned and none is under way
    hPc,        \* per task: where the handler invocation is
    hMsg,       \* per task: the message handled
    hItem,      \* per task: Option<Share> found by the lookup
    hA,         \* per task: upload_file's attempt counter a
    hRes,       \* per task: what handle_message returned
    hBlk,       \* per task: the spawn_blocking closure in flight
    hOpens,     \* history, per task: opens of the backing file
    hPosts,     \* history, per task: outcome of every POST made
    wsPc,       \* handle_ws: "none", "drain", "read", "close", "returned"
    handles,    \* the Vec of JoinHandles, as task ids in push order
    chan,       \* the response channel: results in the order sent
    res,        \* handle_ws's `res`: "Ok" (Ok(false)) or "Err"
    wsRet,      \* what handle_ws returned: "Ok", "Err", or "-" before
    peerClosed, \* a close frame has been read on this connection
    frames,     \* how many frames this session has read
    pings,      \* history: payloads of the pings this session has read
    wire,       \* history: frames written to the connection, in order
    sent,       \* history: tasks in the order their results were sent
    abortedAt,  \* history: Len(wire) when the aborts were issued, or -1
    closedAt,   \* history: Len(wire) when close was called, or -1
    exitBy,     \* history: what ended the read loop, "-" while it runs
    supPc,      \* run: "connect", "session", "sleep"
    supSlept,   \* seconds slept since the last iteration's work ended
    supTries,   \* history: connect attempts made, counted up to 2
    mainPc,     \* main: "wait" in its select loop, "left" once it broke out
                \* of it, "dropping" while the runtime shuts down, "exited"
    marker,     \* the file reload_agent of the config directory exists
    mainCause,  \* history: the branch of the select that left the loop
    oBuild,     \* the earlier agent: "debug" or "release" (debug_assertions)
    oAll,       \* what its inbound stream yields before it ends
    oPos,       \* how many of these items handle_ws has taken
    oPc,        \* its handle_ws: "loop", "returned", "panicked"
    oTasks,     \* the handler tasks it spawned, in the order spawned
    oInternal,  \* the internal channel to its forwarding task
    oSent,      \* what the forwarding task has sent on tx_ws
    oFwd        \* the forwarding task: "run", "stopped", "panicked"

storeVars == <<now, ticks, shares, files, cliShares>>
sweepVars == <<swPc, swWake, swList, swExpired, swKept, swRemoved, swTried,
               swDeleted, swComplete>>
taskVars == <<hPc, hMsg, hItem, hA, hRes, hBlk, hOpens, hPosts>>
sessVars == <<wsPc, handles, chan, res, wsRet, peerClosed, frames, pings, wire,
              sent, abortedAt, closedAt, exitBy>>
supVars == <<supPc, supSlept, supTries>>
mainVars == <<mainPc, marker, mainCause>>
oldVars == <<oBuild, oAll, oPos, oPc, oTasks, oInternal, oSent, oFwd>>
vars == <<storeVars, config, mainVars, oldVars, sweepVars, taskVars, sessVars,
          supVars>>

(* ----------------------------- data ----------------------------------- *)
Some(x) == <<x>>
None == <<>>

\* `as u32` / `as u64` of an i64: the value itself when it is not negative,
\* else the two's complement wrap, which no stored value equals (shown as
\* the negative number tagged "wrapped").
AsUnsigned(x) == IF x >= 0 THEN x ELSE <<"wrapped", x>>

\* riptide_database/src/models.rs: struct Share
MkShare(id, crt, hours) ==
    [file_id |-> id, exp |-> ShareExp(crt, hours), crt |-> crt,
     file_size |-> 100 + id, user_name |-> "alice", file_name |-> "a.txt"]

Ids(S) == {s.file_id : s \in S}

\* ws_com_framework::Message, the variants the agent consumes
UploadTo(f, url) == [kind |-> "UploadTo", file_id |-> f, upload_url |-> url]
MetadataReq(f, u) == [kind |-> "MetadataReq", file_id |-> f, upload_id |-> u]
AuthReq(p) == [kind |-> "AuthReq", public_id |-> p]
StatusReq(p, u) == [kind |-> "StatusReq", public_id |-> p, upload_id |-> u]
MsgOk == [kind |-> "Ok"]
MsgError(k, r) == [kind |-> "Error", errkind |-> k, reason |-> r]
MsgOther == [kind |-> "UploadEvent"]

\* an upload url is its segments between '/'; the last one is the upload id
UrlOf(u) == <<"http:", "", "api", u>>

\* upload_url.split('/').last()
LastSegment(url) == url[Len(url)]

Requests ==
    {UploadTo(f, UrlOf(u)) : f \in FileIds, u \in {7}}
    \cup {MetadataReq(f, u) : f \in FileIds, u \in {8}}
    \cup {AuthReq(p) : p \in {41, 42}}
    \cup {StatusReq(42, u) : u \in {7, 9}}
    \cup {MsgOk,
          MsgError("FileDoesntExist", None), MsgOther}

\* Result<Option<Message>, AgentError>
ROk(opt) == [tag |-> "Ok", reply |-> opt, err |-> "-"]
RErr(e) == [tag |-> "Err", reply |-> None, err |-> e]
RUnset == [tag |-> "unset", reply |-> None, err |-> "-"]

Range(q) == {q[i] : i \in DOMAIN q}
CountIn(q, x) == Cardinality({i \in DOMAIN q : q[i] = x})

(* ------------------------ the response channel ------------------------ *)
\* what a handler task puts on the channel: its handle_message result
ChanItem(t, r) == [task |-> t, r |-> r]

\* tx.send(..): the item goes to the back of the queue
ChanSend(c, x) == Append(c, x)

ChanAlwaysRoom(c) == TRUE

\* main.rs:183: channel(20): a send completes only while fewer than 20
\* results are queued
ChanHasRoom(c) == Len(c) < CHANNEL_CAPACITY

ChanRecvByArrival(c) ==
    LET i == CHOOSE k \in DOMAIN c : \A l \in DOMAIN c : c[k].task <= c[l].task
    IN [item |-> c[i],
        rest |-> SubSeq(c, 1, i - 1) \o SubSeq(c, i + 1, Len(c))]

ChanRecvLast(c) ==
    [item |-> c[Len(c)], rest |-> SubSeq(c, 1, Len(c) - 1)]

ChanRecvKeeps(c) == [item |-> Head(c), rest |-> c]

\* rx.try_recv(): the item at the front of the queue
ChanRecv(c) == [item |-> Head(c), rest |-> Tail(c)]

(* --------------------------- share store ------------------------------ *)
\* riptide_database::get_share_by_id: the first row with that file_id
GetShareById(S, id) ==
    LET f == {s \in S : s.file_id = id}
    IN IF f = {} THEN None ELSE Some(CHOOSE s \in f : TRUE)

RemoveExpiredLe(S, t) == {s \in S : s.exp <= t}

\* riptide_database::remove_expired_shares: the rows with exp < now
RemoveExpired(S, t) == {s \in S : s.exp < t}

\* every order of a finite set, as sequences
Orders(S) ==
    {q \in [1..Cardinality(S) -> S] : \A i, j \in 1..Cardinality(S) :
                                          i # j => q[i] # q[j]}

(* the clock *)
Tick ==
    /\ ticks < MaxTicks
    /\ now' = now + TickStep
    /\ ticks' = ticks + 1
    /\ UNCHANGED <<shares, files, cliShares, config, mainVars, oldVars, sweepVars, taskVars, sessVars, supVars>>

(* riptide_cli: create_share writes the file, then insert_share adds the  *)
(* row; file_id is the table's key, so a row with a used id is refused.   *)
CliShare(id) ==
    /\ cliShares < MaxCliShares
    /\ cliShares' = cliShares + 1
    /\ files' = files \cup {id}
    /\ shares' = IF id \in Ids(shares) THEN shares
                 ELSE shares \cup {MkShare(id, now, 1)}
    /\ UNCHANGED <<now, ticks, config, mainVars, oldVars, sweepVars, taskVars, sessVars, supVars>>

(* riptide_cli: remove_share deletes the row (the file stays) *)
CliRemove(id) ==
    /\ id \in Ids(shares)
    /\ shares' = {s \in shares : s.file_id # id}
    /\ UNCHANGED <<now, ticks, files, cliShares, config, mainVars, oldVars, sweepVars, taskVars, sessVars, supVars>>

(* --------------------------- the sweeper ------------------------------ *)
AfterSweepErrStops(outcome) == IF outcome = "Ok" THEN "sleep" ELSE "stopped"

\* main.rs:360-366: the monitor loop logs an Err of remove_expired_shares
\* and goes round: whatever the sweep returned, the next step is the sleep
AfterSweep(outcome) == "sleep"

\* main.rs:361-366: sleep 60 s, then remove_expired_shares
SwWake ==
    /\ swPc = "sleep"
    /\ now >= swWake
    /\ swPc' = "query"
    /\ swComplete' = FALSE
    /\ UNCHANGED <<storeVars, config, mainVars, oldVars, swWake, swList, swExpired, swKept,
                   swRemoved, swTried, swDeleted, taskVars, sessVars, supVars>>

\* main.rs:284-289 with riptide_database::remove_expired_shares
SwQuery(outcome) ==
    /\ swPc = "query"
    /\ swExpired' = {s \in shares : s.exp < now}
    /\ swKept' = {s \in shares : s.exp >= now}
    /\ swTried' = <<>>
    /\ swDeleted' = {}
    /\ IF outcome = "ok"
       THEN LET gone == RemoveExpired(shares, now)
            IN /\ shares' = shares \ gone
               /\ swRemoved' = gone
               /\ swList' \in Orders(gone)
               /\ swPc' = "delete"
               /\ UNCHANGED <<swWake, swComplete>>
       ELSE \* `.await??`: the error is logged by the monitor loop
            /\ swRemoved' = {}
            /\ swList' = <<>>
            /\ swPc' = AfterSweep("Err")
            /\ swWake' = now + SWEEP_INTERVAL
            /\ swComplete' = TRUE
            /\ UNCHANGED shares
    /\ UNCHANGED <<now, ticks, files, cliShares, config, mainVars, oldVars, taskVars, sessVars,
                   supVars>>

\* main.rs:291-294: remove_file(path)?  for the next share of the Vec
SwDelete(outcome) ==
    /\ swPc = "delete"
    /\ swList # <<>>
    /\ LET id == Head(swList).file_id
           ok == id \in files /\ outcome = "ok"
       IN /\ swTried' = Append(swTried, id)
          /\ IF ok
             THEN /\ files' = files \ {id}
                  /\ swDeleted' = swDeleted \cup {id}
                  /\ swList' = Tail(swList)
                  /\ UNCHANGED <<swPc, swWake, swComplete>>
             ELSE \* `?` leaves remove_expired_shares at the first failure
                  /\ swList' = <<>>
                  /\ swPc' = AfterSweep("Err")
                  /\ swWake' = now + SWEEP_INTERVAL
                  /\ swComplete' = TRUE
                  /\ UNCHANGED <<files, swDeleted>>
    /\ UNCHANGED <<now, ticks, shares, cliShares, config, mainVars, oldVars, swExpired, swKept,
                   swRemoved, taskVars, sessVars, supVars>>

\* main.rs:296 Ok(()), back to the sleep of main.rs:362
SwDone ==
    /\ swPc = "delete"
    /\ swList = <<>>
    /\ swPc' = AfterSweep("Ok")
    /\ swWake' = now + SWEEP_INTERVAL
    /\ swComplete' = TRUE
    /\ UNCHANGED <<storeVars, config, mainVars, oldVars, swList, swExpired, swKept, swRemoved,
                   swTried, swDeleted, taskVars, sessVars, supVars>>

(* ------------------------- handle_message ----------------------------- *)
MetadataResCrtAsExp(f, upload_id) ==
    [kind |-> "MetadataRes", file_id |-> AsUnsigned(f.file_id),
     exp |-> AsUnsigned(f.crt), crt |-> AsUnsigned(f.crt),
     file_size |-> AsUnsigned(f.file_size), username |-> f.user_name,
     file_name |-> f.file_name, upload_id |-> upload_id]

\* main.rs:129-137: MetadataRes built from the Share and the request
MetadataRes(f, upload_id) ==
    [kind |-> "MetadataRes", file_id |-> AsUnsigned(f.file_id),
     exp |-> AsUnsigned(f.exp), crt |-> AsUnsigned(f.crt),
     file_size |-> AsUnsigned(f.file_size), username |-> f.user_name,
     file_name |-> f.file_name, upload_id |-> upload_id]

\* main.rs:128-143: the reply to MetadataReq, given the lookup's item
MetadataReply(item, upload_id) ==
    IF item # None
    THEN ROk(Some(MetadataRes(item[1], upload_id)))
    ELSE ROk(Some(MsgError("FileDoesntExist", None)))

\* main.rs:108-115: the reply to UploadTo when no share was found
UploadMissReply(url) ==
    ROk(Some(MsgError("FileDoesntExist", Some(LastSegment(url)))))

AuthReplyOwnId(m, cfg) ==
    ROk(Some([kind |-> "AuthRes", public_id |-> cfg.public_id[1],
              passcode |-> cfg.private_key[1]]))

\* main.rs:145-148
AuthReply(m, cfg) ==
    ROk(Some([kind |-> "AuthRes", public_id |-> m.public_id,
              passcode |-> cfg.private_key[1]]))

StatusReplyNotReady(m, cfg) ==
    ROk(Some([kind |-> "StatusRes", public_id |-> cfg.public_id[1],
              ready |-> FALSE, uptime |-> 0, upload_id |-> m.upload_id,
              message |-> Some("Ready to upload")]))

\* main.rs:149-158
StatusReply(m, cfg) ==
    ROk(Some([kind |-> "StatusRes", public_id |-> cfg.public_id[1],
              ready |-> TRUE, uptime |-> 0, upload_id |-> m.upload_id,
              message |-> Some("Ready to upload")]))

\* main.rs:104: `if let Some(f) = item` decides whether upload_file runs
UploadRunsAlways(item) == TRUE

UploadRuns(item) == item # None

\* spawn_blocking(ureq post).await: Result<Result<Response, ureq::Error>,
\* JoinError>; the outcome of one POST as the value `res` of main.rs:64-69
PostOutcomes == {"http_ok", "http_err", "join_err"}
PostRes(outcome) ==
    IF outcome = "join_err" THEN [join |-> "Err", http |-> "-"]
    ELSE [join |-> "Ok", http |-> IF outcome = "http_ok" THEN "Ok" ELSE "Err"]

UploadMatchNoBreakOnOk(r, a, max) ==
    LET a1 == a + 1 IN [brk |-> a1 >= max, a |-> a1]

\* main.rs:71-80: `match res`: Ok(_) breaks (the Ok of the join, whatever
\* the POST returned); Err counts an attempt and breaks at the limit
UploadMatch(r, a, max) ==
    IF r.join = "Ok"
    THEN [brk |-> TRUE, a |-> a]
    ELSE LET a1 == a + 1 IN [brk |-> a1 >= max, a |-> a1]

Live(t) == hPc[t] \in {"start", "lookup", "open", "post", "ret"}

\* the locals of task t's invocation
Local(t) ==
    [pc |-> hPc[t], res |-> hRes[t], item |-> hItem[t], a |-> hA[t],
     blk |-> hBlk[t], opens |-> hOpens[t], posts |-> hPosts[t]]

StartStepUnsupportedIsErr(m, cfg, l) ==
    CASE m.kind \in {"UploadTo", "MetadataReq"} ->
           [l EXCEPT !.pc = "lookup", !.blk = "db"]
      [] m.kind = "AuthReq" ->
           IF cfg.private_key = None
           THEN [l EXCEPT !.pc = "panicked"]
           ELSE [l EXCEPT !.pc = "ret", !.res = AuthReply(m, cfg)]
      [] m.kind = "StatusReq" ->
           IF cfg.public_id = None
           THEN [l EXCEPT !.pc = "panicked"]
           ELSE [l EXCEPT !.pc = "ret", !.res = StatusReply(m, cfg)]
      [] m.kind \in {"Ok", "Error"} ->
           [l EXCEPT !.pc = "ret", !.res = ROk(None)]
      [] OTHER ->
           [l EXCEPT !.pc = "ret", !.res = RErr("unsupported")]

\* main.rs:89-173: the match on the message, up to the first await that
\* leaves the task: the blocking lookup, or the value returned
StartStep(m, cfg, l) ==
    CASE m.kind \in {"UploadTo", "MetadataReq"} ->
           [l EXCEPT !.pc = "lookup", !.blk = "db"]
      [] m.kind = "AuthReq" ->
           IF cfg.private_key = None
           THEN [l EXCEPT !.pc = "panicked"]
           ELSE [l EXCEPT !.pc = "ret", !.res = AuthReply(m, cfg)]
      [] m.kind = "StatusReq" ->
           IF cfg.public_id = None
           THEN [l EXCEPT !.pc = "panicked"]
           ELSE [l EXCEPT !.pc = "ret", !.res = StatusReply(m, cfg)]
      [] OTHER ->
           [l EXCEPT !.pc = "ret", !.res = ROk(None)]

\* main.rs:96-116 and 120-143: the blocking lookup returns; `.await??`,
\* then the branch on the item
LookupStep(m, S, outcome, l) ==
    LET item == GetShareById(S, m.file_id)
    IN IF outcome # "ok"
       THEN [l EXCEPT !.pc = "ret", !.res = RErr(outcome), !.blk = "none"]
       ELSE IF m.kind = "MetadataReq"
       THEN [l EXCEPT !.pc = "ret", !.res = MetadataReply(item, m.upload_id),
                      !.item = item, !.blk = "none"]
       ELSE IF UploadRuns(item)
       THEN [l EXCEPT !.pc = "open", !.item = item, !.blk = "none"]
       ELSE [l EXCEPT !.pc = "ret", !.res = UploadMissReply(m.upload_url),
                      !.item = item, !.blk = "none"]

OpenStepMissingIsErr(m, F, l) ==
    IF m.file_id \in F
    THEN [l EXCEPT !.pc = "post", !.blk = "post", !.opens = @ + 1]
    ELSE [l EXCEPT !.pc = "ret", !.res = RErr("io")]

\* main.rs:53-69: upload_file opens the file and hands it to the blocking
\* POST; a missing file panics (`expect`)
OpenStep(m, F, l) ==
    IF m.file_id \in F
    THEN [l EXCEPT !.pc = "post", !.blk = "post", !.opens = @ + 1]
    ELSE [l EXCEPT !.pc = "panicked"]

PostStepErrWhenAbandoned(outcome, cfg, l) ==
    LET n == UploadMatch(PostRes(outcome), l.a, cfg.max_upload_attempts)
        l1 == [l EXCEPT !.a = n.a, !.blk = "none",
                        !.posts = Append(@, outcome)]
    IN IF n.brk
       THEN [l1 EXCEPT !.pc = "ret",
                       !.res = IF PostRes(outcome).join = "Ok"
                               THEN ROk(None) ELSE RErr("upload")]
       ELSE [l1 EXCEPT !.pc = "open"]

\* main.rs:64-81: the POST returns and `match res` runs; main.rs:106
PostStep(outcome, cfg, l) ==
    LET n == UploadMatch(PostRes(outcome), l.a, cfg.max_upload_attempts)
        l1 == [l EXCEPT !.a = n.a, !.blk = "none",
                        !.posts = Append(@, outcome)]
    IN IF n.brk
       THEN [l1 EXCEPT !.pc = "ret", !.res = ROk(None)]
       ELSE [l1 EXCEPT !.pc = "open"]

ReadGuardResets(cfg) == [cfg EXCEPT !.max_upload_attempts = 0]

\* main.rs:54, 75, 95, 119, 147, 153: config.read().await: the handler
\* holds a read guard, and the Config behind it is as it was when the
\* guard is dropped
ReadGuardDropped(cfg) == cfg

HandlerWritesReply(t, r) ==
    IF r.tag = "Ok" /\ r.reply # None
    THEN <<[kind |-> "reply", task |-> t, msg |-> r.reply[1]]>>
    ELSE <<>>

\* main.rs:227-233: the frames a handler task puts on the connection: none,
\* the task is given the message, the config and the sender of the channel
HandlerWrites(t, r) == <<>>

\* task t's invocation moves on to the locals n.  main.rs:229-234: in a
\* session the value handle_message returns is sent on the channel at once
\* and the task, with its locals, is gone; while the channel is full the
\* task waits in the send, holding the value.  An invocation outside a
\* session keeps what it returned
Commit(t, n) ==
    LET fin == n.pc = "ret" /\ t \in Range(handles) /\ ChanHasRoom(chan)
    IN /\ hPc' = [hPc EXCEPT ![t] = IF fin THEN "done" ELSE n.pc]
       /\ hRes' = [hRes EXCEPT ![t] = IF fin THEN RUnset ELSE n.res]
       /\ hItem' = [hItem EXCEPT ![t] = IF fin THEN None ELSE n.item]
       /\ hA' = [hA EXCEPT ![t] = IF fin THEN 0 ELSE n.a]
       /\ hBlk' = [hBlk EXCEPT ![t] = n.blk]
       /\ hOpens' = [hOpens EXCEPT ![t] = IF fin THEN 0 ELSE n.opens]
       /\ hPosts' = [hPosts EXCEPT ![t] = IF fin THEN <<>> ELSE n.posts]
       /\ chan' = IF fin THEN ChanSend(chan, ChanItem(t, n.res)) ELSE chan
       /\ sent' = IF fin THEN Append(sent, t) ELSE sent
       /\ UNCHANGED hMsg
       /\ config' = ReadGuardDropped(config)
       /\ wire' = wire \o HandlerWrites(t, IF fin THEN n.res ELSE RUnset)
       /\ UNCHANGED <<wsPc, handles, res, wsRet, peerClosed, frames, pings,
                      abortedAt, closedAt, exitBy>>
       /\ UNCHANGED <<storeVars, mainVars, oldVars, sweepVars, supVars>>

HStart(t) ==
    /\ hPc[t] = "start"
    /\ Commit(t, StartStep(hMsg[t], config, Local(t)))

HLookup(t, outcome) ==
    /\ hPc[t] = "lookup"
    /\ Commit(t, LookupStep(hMsg[t], shares, outcome, Local(t)))

HOpen(t) ==
    /\ hPc[t] = "open"
    /\ Commit(t, OpenStep(hMsg[t], files, Local(t)))

HPost(t, outcome) ==
    /\ hPc[t] = "post"
    /\ Commit(t, PostStep(outcome, config, Local(t)))

\* main.rs:230-232: a task waiting in the send gets its slot
HSend(t) ==
    /\ hPc[t] = "ret"
    /\ t \in Range(handles)
    /\ ChanHasRoom(chan)
    /\ Commit(t, Local(t))

\* a blocking closure (the lookup, the POST) of an aborted task runs on:
\* abort() cancels the async task, not what it handed to spawn_blocking
BlockingFinish(t) ==
    /\ hPc[t] = "aborted"
    /\ hBlk[t] # "none"
    /\ hBlk' = [hBlk EXCEPT ![t] = "none"]
    /\ UNCHANGED <<hPc, hMsg, hItem, hA, hRes, hOpens, hPosts>>
    /\ UNCHANGED <<storeVars, config, mainVars, oldVars, sweepVars, sessVars, supVars>>

(* -------------------------- initial states --------------------------- *)
\* riptide_config: struct Config, the fields the agent reads
MkConfig(n, delay, key, pid) ==
    [max_upload_attempts |-> n, reconnect_delay_minutes |-> delay,
     private_key |-> key, public_id |-> pid]

IdleTasks ==
    /\ hPc = [t \in Tasks |-> "idle"]
    /\ hMsg = [t \in Tasks |-> MsgOk]
    /\ hItem = [t \in Tasks |-> None]
    /\ hA = [t \in Tasks |-> 0]
    /\ hRes = [t \in Tasks |-> RUnset]
    /\ hBlk = [t \in Tasks |-> "none"]
    /\ hOpens = [t \in Tasks |-> 0]
    /\ hPosts = [t \in Tasks |-> <<>>]

NoSession ==
    /\ wsPc = "none"
    /\ handles = <<>>
    /\ chan = <<>>
    /\ res = "Ok"
    /\ wsRet = "-"
    /\ peerClosed = FALSE
    /\ frames = 0
    /\ pings = <<>>
    /\ wire = <<>>
    /\ sent = <<>>
    /\ abortedAt = -1
    /\ closedAt = -1
    /\ exitBy = "-"

\* main.rs:376: main enters its select loop; no reload is requested
MainWaiting ==
    /\ mainPc = "wait"
    /\ marker = FALSE
    /\ mainCause = "-"

\* the earlier agent is not part of this run
OldAgentIdle ==
    /\ oBuild = "release"
    /\ oAll = <<>>
    /\ oPos = 0
    /\ oPc = "returned"
    /\ oTasks = <<>>
    /\ oInternal = <<>>
    /\ oSent = <<>>
    /\ oFwd = "stopped"

SweeperAsleep ==
    /\ swPc = "sleep"
    /\ swWake = now + SWEEP_INTERVAL
    /\ swList = <<>>
    /\ swExpired = {}
    /\ swKept = {}
    /\ swRemoved = {}
    /\ swTried = <<>>
    /\ swDeleted = {}
    /\ swComplete = FALSE

\* the tables the cli can have left behind: per id no share, or a share of
\* one hour created at 0 or one or two ticks later, each with its file
StoreStates ==
    {S \in SUBSET {MkShare(f, c, 1) : f \in FileIds, c \in {0, TickStep, 2 * TickStep}} :
        \A s1, s2 \in S : s1.file_id = s2.file_id => s1 = s2}

\* the requests whose handling reads max_upload_attempts / the key pair
ReadsAttempts(m) == m.kind = "UploadTo"
ReadsKeys(m) == m.kind \in {"AuthReq", "StatusReq"}

StoreAtStart ==
    /\ now = StartTime
    /\ ticks = 0
    /\ shares \in StoreStates
    /\ files = Ids(shares)
    /\ cliShares = 0

SupervisorAtStart ==
    /\ supPc = "connect"
    /\ supSlept = 0
    /\ supTries = 0

\* one handler invocation (task 1), of any request, against any such store,
\* under any configured attempt limit; the key pair may be absent
InitHandler ==
    /\ StoreAtStart
    /\ SweeperAsleep
    /\ MainWaiting
    /\ OldAgentIdle
    /\ \E m \in Requests :
          /\ hPc = [t \in Tasks |-> IF t = 1 THEN "start" ELSE "idle"]
          /\ hMsg = [t \in Tasks |-> IF t = 1 THEN m ELSE MsgOk]
          /\ \E n \in 0..MaxAttempts, k \in {None, Some("key")} :
                /\ ReadsAttempts(m) \/ n = 1
                /\ ReadsKeys(m) \/ k # None
                /\ config = MkConfig(n, 1, k, IF k = None THEN None
                                               ELSE Some(41))
    /\ hItem = [t \in Tasks |-> None]
    /\ hA = [t \in Tasks |-> 0]
    /\ hRes = [t \in Tasks |-> RUnset]
    /\ hBlk = [t \in Tasks |-> "none"]
    /\ hOpens = [t \in Tasks |-> 0]
    /\ hPosts = [t \in Tasks |-> <<>>]
    /\ NoSession
    /\ SupervisorAtStart

NextHandler ==
    \/ \E t \in Tasks : HStart(t)
    \/ \E t \in Tasks, o \in {"ok", "db_err", "join_err"} : HLookup(t, o)
    \/ \E t \in Tasks : HOpen(t)
    \/ \E t \in Tasks, o \in PostOutcomes : HPost(t, o)

SpecHandler == InitHandler /\ [][NextHandler]_vars

\* the sweeper beside the cli and the clock, no handler running
InitSweep ==
    /\ StoreAtStart
    /\ config = MkConfig(1, 1, Some("key"), Some(41))
    /\ SweeperAsleep
    /\ MainWaiting
    /\ OldAgentIdle
    /\ IdleTasks
    /\ NoSession
    /\ SupervisorAtStart

NextSweep ==
    \/ Tick
    \/ \E id \in FileIds : CliShare(id)
    \/ \E id \in FileIds : CliRemove(id)
    \/ SwWake
    \/ \E o \in {"ok", "db_err", "join_err"} : SwQuery(o)
    \/ \E o \in {"ok", "io_err"} : SwDelete(o)
    \/ SwDone

SpecSweep == InitSweep /\ [][NextSweep]_vars

(* a handler that looks a share up, next to the monitor task: main.rs:358-367 spawns   *)
(* the sweeper on the runtime that also runs the handler tasks            *)
InitRace ==
    /\ StoreAtStart
    /\ config = MkConfig(MaxAttempts, 1, Some("key"), Some(41))
    /\ SweeperAsleep
    /\ MainWaiting
    /\ OldAgentIdle
    /\ \E m \in {r \in Requests : r.kind \in {"UploadTo", "MetadataReq"}} :
          /\ hPc = [t \in Tasks |-> IF t = 1 THEN "start" ELSE "idle"]
          /\ hMsg = [t \in Tasks |-> IF t = 1 THEN m ELSE MsgOk]
    /\ hItem = [t \in Tasks |-> None]
    /\ hA = [t \in Tasks |-> 0]
    /\ hRes = [t \in Tasks |-> RUnset]
    /\ hBlk = [t \in Tasks |-> "none"]
    /\ hOpens = [t \in Tasks |-> 0]
    /\ hPosts = [t \in Tasks |-> <<>>]
    /\ NoSession
    /\ SupervisorAtStart

NextRace ==
    \/ Tick
    \/ SwWake
    \/ \E o \in {"ok", "db_err", "join_err"} : SwQuery(o)
    \/ \E o \in {"ok", "io_err"} : SwDelete(o)
    \/ SwDone
    \/ \E t \in Tasks : HStart(t)
    \/ \E t \in Tasks, o \in {"ok", "db_err", "join_err"} : HLookup(t, o)
    \/ \E t \in Tasks : HOpen(t)
    \/ \E t \in Tasks, o \in PostOutcomes : HPost(t, o)

SpecRace == InitRace /\ [][NextRace]_vars

(* ---------------------------- handle_ws ------------------------------- *)
ReplyFrame(t, m) == [kind |-> "reply", task |-> t, msg |-> m]

PongFrameNoPayload(p) == [kind |-> "pong", task |-> 0, msg |-> 0]

\* main.rs:241: TungsteniteMessage::Pong(msg), msg the ping's payload
PongFrame(p) == [kind |-> "pong", task |-> 0, msg |-> p]

AbortNone(pcs, hs) == pcs

\* main.rs:272-274: abort() on every handle: a task that has not finished
\* is cancelled at the await it is at
AbortAll(pcs, hs) ==
    [t \in Tasks |->
        IF t \in Range(hs)
           /\ pcs[t] \in {"start", "lookup", "open", "post", "ret"}
        THEN "aborted" ELSE pcs[t]]

\* main.rs:188-214: one turn of `while let Ok(m) = rx.try_recv()`; an empty
\* channel ends the while, and so does `break` (the inner loop only)
HandlerErrEndsSession == "close"

\* main.rs:209-212: a handler's error is kept in res and the break leaves
\* the while loop only: handle_ws goes on to read the next frame
HandlerErrNext == "read"

WsDrain(outcome) ==
    /\ supPc = "session"
    /\ wsPc = "drain"
    /\ IF chan = <<>>
       THEN /\ outcome = "ok"
            /\ wsPc' = "read"
            /\ UNCHANGED <<chan, res, wire>>
       ELSE LET got == ChanRecv(chan)
                m == got.item
            IN /\ chan' = got.rest
               /\ IF m.r.tag = "Ok" /\ m.r.reply # None
                  THEN IF outcome = "ok"
                       THEN /\ wire' = Append(wire,
                                              ReplyFrame(m.task, m.r.reply[1]))
                            /\ UNCHANGED <<wsPc, res>>
                       ELSE \* try_into or send failed
                            /\ res' = "Err"
                            /\ wsPc' = "read"
                            /\ UNCHANGED wire
                  ELSE /\ outcome = "ok"
                       /\ IF m.r.tag = "Ok"
                          THEN UNCHANGED <<wsPc, res>>
                          ELSE /\ res' = "Err"
                               /\ wsPc' = HandlerErrNext
                       /\ UNCHANGED wire
    /\ UNCHANGED <<handles, wsRet, peerClosed, frames, pings, sent, abortedAt,
                   closedAt, exitBy>>
    /\ UNCHANGED <<storeVars, config, mainVars, oldVars, sweepVars, taskVars, supVars>>

ReadWaitsForLive(hs, pcs) ==
    {t \in Range(hs) : pcs[t] \in {"start", "lookup", "open", "post", "ret"}}

\* main.rs:217: the handlers the read of the next frame waits for: none,
\* next() is awaited as soon as the channel has been drained
ReadWaitsFor(hs, pcs) == {}

SessionRequests ==
    {UploadTo(1, UrlOf(7)), MetadataReq(1, 8), MetadataReq(2, 8), MsgOk}

\* main.rs:218-236: a binary frame that decodes; its handler is spawned
WsBinary(m) ==
    /\ supPc = "session"
    /\ wsPc = "read"
    /\ ReadWaitsFor(handles, hPc) = {}
    /\ ~peerClosed
    /\ frames < MaxFrames
    /\ Len(handles) < MaxTasks
    /\ frames' = frames + 1
    /\ LET t == Len(handles) + 1
       IN /\ handles' = Append(handles, t)
          /\ hPc' = [hPc EXCEPT ![t] = "start"]
          /\ hMsg' = [hMsg EXCEPT ![t] = m]
    /\ wsPc' = "drain"
    /\ UNCHANGED <<hItem, hA, hRes, hBlk, hOpens, hPosts>>
    /\ UNCHANGED <<chan, res, wsRet, peerClosed, pings, wire, sent, abortedAt,
                   closedAt, exitBy>>
    /\ UNCHANGED <<storeVars, config, mainVars, oldVars, sweepVars, supVars>>

\* main.rs:269-274: the loop is left by `break` with `res` = r; the
\* for loop over the handles follows at once (the locals of a cancelled
\* task are dropped), then the close is awaited
LeaveLoop(r, cause) ==
    /\ res' = r
    /\ exitBy' = cause
    /\ hPc' = AbortAll(hPc, handles)
    /\ abortedAt' = Len(wire)
    /\ wsPc' = "close"
    /\ hItem' = [t \in Tasks |-> None]
    /\ hA' = [t \in Tasks |-> 0]
    /\ hRes' = [t \in Tasks |-> RUnset]
    /\ hOpens' = [t \in Tasks |-> 0]
    /\ hPosts' = [t \in Tasks |-> <<>>]
    /\ UNCHANGED <<hMsg, hBlk>>
    /\ UNCHANGED <<handles, chan, wsRet, peerClosed, frames, wire, sent,
                   closedAt>>
    /\ UNCHANGED <<storeVars, config, mainVars, oldVars, sweepVars, supVars>>

BreakResDecodeOk(frame, r) ==
    IF frame \in {"none", "bad_binary"} THEN r ELSE "Err"

BreakResReadErrOk(frame, r) ==
    IF frame \in {"none", "err"} THEN r ELSE "Err"

\* main.rs:219-225, 258-267: `res` when the loop is left on a frame: Err
\* for a binary frame that does not decode, a raw frame and a read error;
\* as it was at the end of the stream
BreakRes(frame, r) == IF frame = "none" THEN r ELSE "Err"

\* main.rs:219-225 decode failure, 258-262 raw frame, 263-266 read error:
\* res = Err and break;  267: end of stream, break
WsBreak(frame) ==
    /\ supPc = "session"
    /\ wsPc = "read"
    /\ ReadWaitsFor(handles, hPc) = {}
    /\ peerClosed => frame \in {"err", "none"}
    /\ LeaveLoop(BreakRes(frame, res), frame)
    /\ UNCHANGED pings

\* main.rs:237-247: a ping is answered by a pong with its payload; a failed
\* write is res = Err and break
WsPing(p, outcome) ==
    /\ supPc = "session"
    /\ wsPc = "read"
    /\ ReadWaitsFor(handles, hPc) = {}
    /\ ~peerClosed
    /\ frames < MaxFrames
    /\ pings' = Append(pings, p)
    /\ IF outcome = "ok"
       THEN /\ wire' = Append(wire, PongFrame(p))
            /\ frames' = frames + 1
            /\ wsPc' = "drain"
            /\ UNCHANGED <<handles, chan, res, wsRet, peerClosed, sent,
                           abortedAt, closedAt, exitBy>>
            /\ UNCHANGED <<storeVars, config, mainVars, oldVars, sweepVars, taskVars, supVars>>
       ELSE LeaveLoop("Err", "pong_err")

\* main.rs:248-253: pong and text frames are logged
WsInfo ==
    /\ supPc = "session"
    /\ wsPc = "read"
    /\ ReadWaitsFor(handles, hPc) = {}
    /\ ~peerClosed
    /\ frames < MaxFrames
    /\ frames' = frames + 1
    /\ wsPc' = "drain"
    /\ UNCHANGED <<handles, chan, res, wsRet, peerClosed, pings, wire, sent,
                   abortedAt, closedAt, exitBy>>
    /\ UNCHANGED <<storeVars, config, mainVars, oldVars, sweepVars, taskVars, supVars>>

\* main.rs:254-257: a close frame sets res = Ok(false); there is no break
WsCloseFrame ==
    /\ supPc = "session"
    /\ wsPc = "read"
    /\ ReadWaitsFor(handles, hPc) = {}
    /\ ~peerClosed
    /\ frames < MaxFrames
    /\ frames' = frames + 1
    /\ peerClosed' = TRUE
    /\ res' = "Ok"
    /\ wsPc' = "drain"
    /\ UNCHANGED <<handles, chan, wsRet, pings, wire, sent, abortedAt,
                   closedAt, exitBy>>
    /\ UNCHANGED <<storeVars, config, mainVars, oldVars, sweepVars, taskVars, supVars>>

\* main.rs:276-277: close(None).await?  then res; the channel is dropped
\* with the results still in it
WsShutdown(outcome) ==
    /\ supPc = "session"
    /\ wsPc = "close"
    /\ closedAt' = Len(wire)
    /\ wsRet' = IF outcome = "ok" THEN res ELSE "Err"
    /\ wsPc' = "returned"
    /\ chan' = <<>>
    /\ sent' = <<>>
    /\ UNCHANGED <<handles, res, peerClosed, frames, pings, wire, abortedAt,
                   exitBy>>
    /\ UNCHANGED <<storeVars, config, mainVars, oldVars, sweepVars, taskVars, supVars>>

(* ------------------------------- run ---------------------------------- *)
Max(a, b) == IF a >= b THEN a ELSE b
Min(a, b) == IF a <= b THEN a ELSE b

ReconnectSleepMin(cfg) ==
    Min(cfg.reconnect_delay_minutes * 60, MIN_RECONNECT_DELAY)

\* main.rs:330-333: the seconds slept after every iteration
ReconnectSleep(cfg) ==
    Max(cfg.reconnect_delay_minutes * 60, MIN_RECONNECT_DELAY)

\* the sleep is observed every half floor
SleepStep == MIN_RECONNECT_DELAY \div 2

AfterIterationErrStops(outcome) ==
    IF outcome = "Err" THEN "stopped" ELSE "sleep"

\* main.rs:319-334: where run goes after the match on the connect result,
\* whatever the connect or handle_ws returned: to the sleep (the loop has
\* no break and no return)
AfterIteration(outcome) == "sleep"

\* main.rs:308-328: connect; Ok runs handle_ws on the new connection,
\* main.rs:180-185; Err is logged
SupConnect(outcome) ==
    /\ supPc = "connect"
    /\ supTries' = Min(supTries + 1, 2)
    /\ supSlept' = 0
    /\ IF outcome = "ok"
       THEN /\ supPc' = "session"
            /\ wsPc' = "drain"
            /\ wsRet' = "-"
            /\ UNCHANGED <<handles, chan, res, peerClosed, frames, pings, wire,
                           sent, abortedAt, closedAt, exitBy>>
       ELSE /\ supPc' = AfterIteration("Err")
            /\ UNCHANGED sessVars
    /\ UNCHANGED <<storeVars, config, mainVars, oldVars, sweepVars, taskVars>>

SessionOverAtClose(pc) == pc \in {"close", "returned"}

\* main.rs:319-320: `handle_ws(ws, config.clone()).await`: run goes on when
\* the future of handle_ws has completed, that is when it has returned
SessionOver(pc) == pc = "returned"

\* main.rs:321-323: handle_ws has returned, an Err is logged; the session's
\* locals (handles, channel, connection) are gone, and so is the record of
\* its tasks
SupSessionEnd ==
    /\ supPc = "session"
    /\ SessionOver(wsPc)
    /\ supPc' = AfterIteration(wsRet)
    /\ supSlept' = 0
    /\ wsPc' = "none"
    /\ handles' = <<>>
    /\ chan' = <<>>
    /\ res' = "Ok"
    /\ peerClosed' = FALSE
    /\ frames' = 0
    /\ pings' = <<>>
    /\ wire' = <<>>
    /\ sent' = <<>>
    /\ abortedAt' = -1
    /\ closedAt' = -1
    /\ exitBy' = "-"
    /\ hPc' = [t \in Tasks |-> "idle"]
    /\ hMsg' = [t \in Tasks |-> MsgOk]
    /\ hItem' = [t \in Tasks |-> None]
    /\ hA' = [t \in Tasks |-> 0]
    /\ hRes' = [t \in Tasks |-> RUnset]
    /\ hBlk' = [t \in Tasks |-> "none"]
    /\ hOpens' = [t \in Tasks |-> 0]
    /\ hPosts' = [t \in Tasks |-> <<>>]
    /\ UNCHANGED <<wsRet, supTries>>
    /\ UNCHANGED <<storeVars, config, mainVars, oldVars, sweepVars>>

\* main.rs:330-334: time passes in the sleep
SupSleep ==
    /\ supPc = "sleep"
    /\ supSlept < ReconnectSleep(config)
    /\ supSlept' = supSlept + SleepStep
    /\ UNCHANGED <<supPc, supTries>>
    /\ UNCHANGED <<storeVars, config, mainVars, oldVars, sweepVars, taskVars, sessVars>>

\* main.rs:334-335: the sleep is over, the loop starts again
SupWake ==
    /\ supPc = "sleep"
    /\ supSlept >= ReconnectSleep(config)
    /\ supPc' = "connect"
    /\ UNCHANGED <<supSlept, supTries>>
    /\ UNCHANGED <<storeVars, config, mainVars, oldVars, sweepVars, taskVars, sessVars>>

\* the agent with one stored share (id 1) and none of id 2, no sweep due;
\* the reconnect delay is below or above the floor
Init ==
    /\ now = StartTime
    /\ ticks = 0
    /\ shares = {MkShare(1, StartTime, 1)}
    /\ files = {1}
    /\ cliShares = 0
    /\ \E d \in {1, 100} : config = MkConfig(2, d, Some("key"), Some(41))
    /\ SweeperAsleep
    /\ MainWaiting
    /\ OldAgentIdle
    /\ IdleTasks
    /\ NoSession
    /\ SupervisorAtStart

Next ==
    \/ \E o \in {"ok", "err"} : SupConnect(o)
    \/ SupSessionEnd
    \/ SupSleep
    \/ SupWake
    \/ \E o \in {"ok", "encode_err", "write_err"} : WsDrain(o)
    \/ \E m \in SessionRequests : WsBinary(m)
    \/ \E f \in {"bad_binary", "raw", "err", "none"} : WsBreak(f)
    \/ \E o \in {"ok", "err"} : WsPing(5, o)
    \/ WsInfo
    \/ WsCloseFrame
    \/ \E o \in {"ok", "err"} : WsShutdown(o)
    \/ \E t \in Tasks : HStart(t)
    \/ \E t \in Tasks, o \in {"ok", "db_err", "join_err"} : HLookup(t, o)
    \/ \E t \in Tasks : HOpen(t)
    \/ \E t \in Tasks, o \in PostOutcomes : HPost(t, o)
    \/ \E t \in Tasks : BlockingFinish(t)

Spec == Init /\ [][Next]_vars

\* main.rs:160-172: the requests handle_message only logs
QuietRequests == {MsgOk, MsgError("FileDoesntExist", None), MsgOther}

\* sessions of metadata requests in which every lookup and every write of
\* a reply succeeds
NextLive ==
    \/ \E o \in {"ok", "err"} : SupConnect(o)
    \/ SupSessionEnd
    \/ SupSleep
    \/ SupWake
    \/ WsDrain("ok")
    \/ \E f \in FileIds : WsBinary(MetadataReq(f, 8))
    \/ \E f \in {"err", "none"} : WsBreak(f)
    \/ WsInfo
    \/ WsShutdown("ok")
    \/ \E t \in Tasks : HStart(t)
    \/ \E t \in Tasks : HLookup(t, "ok")

\* handle_ws and the handler tasks are scheduled: a drain that can run
\* runs, and a handler goes on to its result; nothing makes the peer send
DispatchFairness ==
    /\ WF_vars(WsDrain("ok"))
    /\ \A t \in Tasks : WF_vars(HStart(t))
    /\ \A t \in Tasks : WF_vars(HLookup(t, "ok"))

SpecLive == Init /\ [][NextLive]_vars /\ DispatchFairness

(* one session beside the sweeper: the share of file 1 expires while the  *)
(* session serves UploadTo and MetadataReq frames for it                  *)
InitPanic ==
    /\ now = StartTime
    /\ ticks = 0
    /\ shares = {MkShare(1, 0, 1)}
    /\ files = {1}
    /\ cliShares = 0
    /\ config = MkConfig(MaxAttempts, 1, Some("key"), Some(41))
    /\ SweeperAsleep
    /\ MainWaiting
    /\ OldAgentIdle
    /\ IdleTasks
    /\ NoSession
    /\ SupervisorAtStart

NextPanic ==
    \/ Tick
    \/ SwWake
    \/ SwQuery("ok")
    \/ SwDelete("ok")
    \/ SwDone
    \/ SupConnect("ok")
    \/ SupSessionEnd
    \/ WsDrain("ok")
    \/ \E m \in {UploadTo(1, UrlOf(7)), MetadataReq(1, 8)} : WsBinary(m)
    \/ \E f \in {"err", "none"} : WsBreak(f)
    \/ WsShutdown("ok")
    \/ \E t \in Tasks : HStart(t)
    \/ \E t \in Tasks : HLookup(t, "ok")
    \/ \E t \in Tasks : HOpen(t)
    \/ \E t \in Tasks, o \in PostOutcomes : HPost(t, o)
    \/ \E t \in Tasks : BlockingFinish(t)

SpecPanic == InitPanic /\ [][NextPanic]_vars

\* run with sessions whose requests need no lookup: the connection is read
\* (requests, pings, other frames, close) until a frame or an error ends
\* the session
NextRun ==
    \/ \E o \in {"ok", "err"} : SupConnect(o)
    \/ SupSessionEnd
    \/ SupSleep
    \/ SupWake
    \/ WsDrain("ok")
    \/ \E m \in QuietRequests : WsBinary(m)
    \/ \E t \in Tasks : HStart(t)
    \/ \E f \in {"bad_binary", "raw", "err", "none"} : WsBreak(f)
    \/ \E p \in {5, 6}, o \in {"ok", "err"} : WsPing(p, o)
    \/ WsInfo
    \/ WsCloseFrame
    \/ \E o \in {"ok", "err"} : WsShutdown(o)

\* the runtime goes on polling run: a sleep whose time has come ends, time
\* passes in a sleep, the return of handle_ws is taken up, and the close
\* call awaited at main.rs:276 returns
RunFairness ==
    /\ WF_vars(SupSleep)
    /\ WF_vars(SupWake)
    /\ WF_vars(SupSessionEnd)
    /\ WF_vars(\E o \in {"ok", "err"} : WsShutdown(o))

SpecRun == Init /\ [][NextRun]_vars /\ RunFairness

\* main.rs:358-368: the monitor task sweeps beside run, which connects,
\* loses its connection and sleeps
NextMonitor ==
    \/ Tick
    \/ SwWake
    \/ \E o \in {"ok", "db_err", "join_err"} : SwQuery(o)
    \/ \E o \in {"ok", "io_err"} : SwDelete(o)
    \/ SwDone
    \/ \E o \in {"ok", "err"} : SupConnect(o)
    \/ WsDrain("ok")
    \/ WsBreak("err")
    \/ WsShutdown("ok")
    \/ SupSessionEnd
    \/ SupSleep
    \/ SupWake

SpecMonitor == InitSweep /\ [][NextMonitor]_vars

(* ------------------------------- main -------------------------------- *)
RunningAlways == TRUE

\* the tokio runtime of #[tokio::main] lives until main returns: run, the
\* monitor task and the handler tasks are polled while it does
Running == mainPc \in {"wait", "left"}

\* the runtime is dropped: every task is cancelled at the await it is at
DropAll(pcs) ==
    [t \in Tasks |->
        IF pcs[t] \in {"start", "lookup", "open", "post", "ret"}
        THEN "aborted" ELSE pcs[t]]

\* main.rs:376-409: a branch of the select breaks out of the loop
MainLeave(cause) ==
    /\ mainPc' = "left"
    /\ mainCause' = cause

\* main.rs:380-383: ctrl_c() completes
MainSigint ==
    /\ mainPc = "wait"
    /\ MainLeave("sigint")
    /\ UNCHANGED marker
    /\ UNCHANGED <<storeVars, config, oldVars, sweepVars, taskVars, sessVars, supVars>>

\* riptide_config lib.rs:258-272: Config::reload_agent writes the marker
CliReload ==
    /\ ~marker
    /\ marker' = TRUE
    /\ UNCHANGED <<mainPc, mainCause>>
    /\ UNCHANGED <<storeVars, config, oldVars, sweepVars, taskVars, sessVars, supVars>>

ReloadRequestedKeepsMarker(m, outcome) ==
    IF ~m THEN [ret |-> "false", marker |-> FALSE]
    ELSE IF outcome = "ok" THEN [ret |-> "true", marker |-> TRUE]
    ELSE [ret |-> "Err", marker |-> TRUE]

\* lib.rs:274-288: Config::reload_requested: whether the marker exists; an
\* existing marker is removed, and a failure to remove it is the Err
ReloadRequested(m, outcome) ==
    IF ~m THEN [ret |-> "false", marker |-> FALSE]
    ELSE IF outcome = "ok" THEN [ret |-> "true", marker |-> FALSE]
    ELSE [ret |-> "Err", marker |-> TRUE]

\* main.rs:385-397: the reload timer fires: Ok(true) breaks, Ok(false) and
\* Err (logged) re-arm the timer
MainReloadCheck(outcome) ==
    /\ mainPc = "wait"
    /\ marker \/ outcome = "ok"
    /\ LET r == ReloadRequested(marker, outcome)
       IN /\ marker' = r.marker
          /\ IF r.ret = "true"
             THEN MainLeave("reload")
             ELSE UNCHANGED <<mainPc, mainCause>>
    /\ UNCHANGED <<storeVars, config, oldVars, sweepVars, taskVars, sessVars, supVars>>

\* main.rs:411-412: main returns and the runtime is dropped: its tasks are
\* cancelled, the blocking closures that have started run to their end
MainDrop ==
    /\ mainPc = "left"
    /\ mainPc' = "dropping"
    /\ hPc' = DropAll(hPc)
    /\ UNCHANGED <<hMsg, hItem, hA, hRes, hBlk, hOpens, hPosts>>
    /\ UNCHANGED <<marker, mainCause>>
    /\ UNCHANGED <<storeVars, config, oldVars, sweepVars, sessVars, supVars>>

\* the blocking closure of a cancelled remove_expired_shares (main.rs:
\* 284-288) runs to its end: the expired rows are removed, no file is
\* deleted
SwOrphanQuery ==
    /\ mainPc = "dropping"
    /\ swPc = "query"
    /\ shares' = shares \ RemoveExpired(shares, now)
    /\ swPc' = "dropped"
    /\ UNCHANGED <<now, ticks, files, cliShares>>
    /\ UNCHANGED <<swWake, swList, swExpired, swKept, swRemoved, swTried,
                   swDeleted, swComplete>>
    /\ UNCHANGED <<config, mainVars, oldVars, taskVars, sessVars, supVars>>

\* the blocking closure of a cancelled handler runs to its end
HOrphan(t) ==
    /\ mainPc = "dropping"
    /\ BlockingFinish(t)

\* the drop of the runtime ends and the process exits
MainExit ==
    /\ mainPc = "dropping"
    /\ mainPc' = "exited"
    /\ UNCHANGED <<marker, mainCause>>
    /\ UNCHANGED <<storeVars, config, oldVars, sweepVars, taskVars, sessVars, supVars>>

\* what run, the sessions, the handlers and the monitor task do
TaskStep ==
    \/ \E o \in {"ok", "err"} : SupConnect(o)
    \/ WsDrain("ok")
    \/ WsBinary(MetadataReq(1, 8))
    \/ \E t \in Tasks : HStart(t)
    \/ \E t \in Tasks : HLookup(t, "ok")
    \/ WsBreak("err")
    \/ WsShutdown("ok")
    \/ SupSessionEnd
    \/ SupSleep
    \/ SupWake
    \/ SwWake
    \/ \E o \in {"ok", "db_err"} : SwQuery(o)
    \/ SwDelete("ok")
    \/ SwDone

\* the agent started with one share, about to expire
InitMain ==
    /\ now = StartTime
    /\ ticks = 0
    /\ shares = {MkShare(1, 0, 1)}
    /\ files = {1}
    /\ cliShares = 0
    /\ config = MkConfig(1, 1, Some("key"), Some(41))
    /\ SweeperAsleep
    /\ MainWaiting
    /\ OldAgentIdle
    /\ IdleTasks
    /\ NoSession
    /\ SupervisorAtStart

NextMain ==
    \/ Running /\ TaskStep
    \/ Tick
    \/ CliReload
    \/ MainSigint
    \/ \E o \in {"ok", "io_err"} : MainReloadCheck(o)
    \/ MainDrop
    \/ SwOrphanQuery
    \/ \E t \in Tasks : HOrphan(t)
    \/ MainExit

SpecMain == InitMain /\ [][NextMain]_vars

(* ------------- the earlier agent: src/agent/src/main.rs -------------- *)
\* what rx_ws.next() yields: a message the handler answers with None
\* ("quiet"), with a reply ("ask") or with an error ("bad"), or a receive
\* error ("err")
OldItems == {"quiet", "ask", "bad", "err"}

\* the handler passed to handle_ws, by the message it is given
OldHandler(m) ==
    CASE m = "quiet" -> ROk(None)
      [] m = "ask" -> ROk(Some("answer"))
      [] OTHER -> RErr("handler")

\* agent main.rs:49-64: debug_panic! panics under debug_assertions and
\* prints otherwise
DebugPanics(build) == build = "debug"

OldRepliesAlways(i, r) ==
    IF r.tag = "Ok" /\ r.reply # None
    THEN <<[task |-> i, msg |-> r.reply[1]]>>
    ELSE <<[task |-> i, msg |-> "none"]>>

\* agent main.rs:226-233: what a handler task puts on the internal channel
\* for the result r: the reply of Ok(Some(reply)), else nothing
OldReplies(i, r) ==
    IF r.tag = "Ok" /\ r.reply # None
    THEN <<[task |-> i, msg |-> r.reply[1]]>>
    ELSE <<>>

\* agent main.rs:201-212: rx_ws.next() yields an item: a receive error is a
\* debug_panic! and `continue`; a message gets its handler task spawned
OldRecv ==
    /\ oPc = "loop"
    /\ oPos < Len(oAll)
    /\ oPos' = oPos + 1
    /\ LET m == oAll[oPos + 1]
       IN IF m = "err"
          THEN /\ oPc' = IF DebugPanics(oBuild) THEN "panicked" ELSE "loop"
               /\ UNCHANGED oTasks
          ELSE /\ oTasks' = Append(oTasks, [msg |-> m, st |-> "spawned",
                                            calls |-> 0])
               /\ UNCHANGED oPc
    /\ UNCHANGED <<oBuild, oAll, oInternal, oSent, oFwd>>
    /\ UNCHANGED <<storeVars, config, mainVars, sweepVars, taskVars, sessVars,
                   supVars>>

\* agent main.rs:201, 237: the stream has ended, handle_ws returns Ok(())
OldEnd ==
    /\ oPc = "loop"
    /\ oPos = Len(oAll)
    /\ oPc' = "returned"
    /\ UNCHANGED <<oBuild, oAll, oPos, oTasks, oInternal, oSent, oFwd>>
    /\ UNCHANGED <<storeVars, config, mainVars, sweepVars, taskVars, sessVars,
                   supVars>>

\* agent main.rs:218-235: a handler task runs: it calls the handler; an Err
\* is a debug_panic! and the task returns; a reply goes to the internal
\* channel, whose send fails once the forwarding task is gone
OldHandle(i) ==
    /\ i \in DOMAIN oTasks
    /\ oTasks[i].st = "spawned"
    /\ LET r == OldHandler(oTasks[i].msg)
           out == OldReplies(i, r)
           failed == r.tag = "Err" \/ (out # <<>> /\ oFwd # "run")
       IN /\ oTasks' = [oTasks EXCEPT
                           ![i].calls = @ + 1,
                           ![i].st = IF failed /\ DebugPanics(oBuild)
                                     THEN "panicked" ELSE "done"]
          /\ oInternal' = IF oFwd = "run" THEN oInternal \o out
                          ELSE oInternal
    /\ UNCHANGED <<oBuild, oAll, oPos, oPc, oSent, oFwd>>
    /\ UNCHANGED <<storeVars, config, mainVars, sweepVars, taskVars, sessVars,
                   supVars>>

\* agent main.rs:192-199: the forwarding task takes a reply from the
\* internal channel and sends it on tx_ws; a failed send ends the task
OldForward(outcome) ==
    /\ oFwd = "run"
    /\ oInternal # <<>>
    /\ oInternal' = IF outcome = "ok" THEN Tail(oInternal) ELSE <<>>
    /\ oSent' = IF outcome = "ok" THEN Append(oSent, Head(oInternal))
                ELSE oSent
    /\ oFwd' = IF outcome = "ok" THEN "run"
               ELSE IF DebugPanics(oBuild) THEN "panicked" ELSE "stopped"
    /\ UNCHANGED <<oBuild, oAll, oPos, oPc, oTasks>>
    /\ UNCHANGED <<storeVars, config, mainVars, sweepVars, taskVars, sessVars,
                   supVars>>

\* handle_ws of the earlier agent is called on a stream that yields any
\* items up to MaxFrames of them and then ends, in either build
InitOld ==
    /\ now = StartTime
    /\ ticks = 0
    /\ shares = {}
    /\ files = {}
    /\ cliShares = 0
    /\ config = MkConfig(1, 1, Some("key"), Some(41))
    /\ SweeperAsleep
    /\ MainWaiting
    /\ IdleTasks
    /\ NoSession
    /\ SupervisorAtStart
    /\ oBuild \in {"debug", "release"}
    /\ oAll \in UNION {[1..n -> OldItems] : n \in 0..MaxFrames}
    /\ oPos = 0
    /\ oPc = "loop"
    /\ oTasks = <<>>
    /\ oInternal = <<>>
    /\ oSent = <<>>
    /\ oFwd = "run"

NextOld ==
    \/ OldRecv
    \/ OldEnd
    \/ \E i \in 1..MaxFrames : OldHandle(i)
    \/ \E o \in {"ok", "err"} : OldForward(o)

SpecOld == InitOld /\ [][NextOld]_vars

\* the results of the later handlers of a busy session, all replies
QueuedReply(t) == ChanItem(t, MetadataReply(None, 8))

\* a busy session: the handlers of its first MaxTasks requests are still
\* running; those of the CHANNEL_CAPACITY - 1 requests after them finished
\* while handle_ws awaited a frame, which it has just read: it is about to
\* drain the channel, on which their results wait
InitChan ==
    /\ now = StartTime
    /\ ticks = 0
    /\ shares = {MkShare(1, StartTime, 1)}
    /\ files = {1}
    /\ cliShares = 0
    /\ config = MkConfig(1, 1, Some("key"), Some(41))
    /\ SweeperAsleep
    /\ MainWaiting
    /\ OldAgentIdle
    /\ hPc = [t \in Tasks |-> "start"]
    /\ hMsg \in [Tasks -> {MetadataReq(1, 8), MetadataReq(2, 8)}]
    /\ hItem = [t \in Tasks |-> None]
    /\ hA = [t \in Tasks |-> 0]
    /\ hRes = [t \in Tasks |-> RUnset]
    /\ hBlk = [t \in Tasks |-> "none"]
    /\ hOpens = [t \in Tasks |-> 0]
    /\ hPosts = [t \in Tasks |-> <<>>]
    /\ wsPc = "drain"
    /\ handles = [i \in 1..(MaxTasks + CHANNEL_CAPACITY - 1) |-> i]
    /\ chan = [i \in 1..(CHANNEL_CAPACITY - 1) |-> QueuedReply(MaxTasks + i)]
    /\ sent = [i \in 1..(CHANNEL_CAPACITY - 1) |-> MaxTasks + i]
    /\ res = "Ok"
    /\ wsRet = "-"
    /\ peerClosed = FALSE
    /\ frames = MaxTasks + CHANNEL_CAPACITY
    /\ pings = <<>>
    /\ wire = <<>>
    /\ abortedAt = -1
    /\ closedAt = -1
    /\ exitBy = "-"
    /\ supPc = "session"
    /\ supSlept = 0
    /\ supTries = 1

\* the handlers finish and wait for room while handle_ws drains, until the
\* connection ends
NextChan ==
    \/ \E t \in Tasks : HStart(t)
    \/ \E t \in Tasks : HLookup(t, "ok")
    \/ \E t \in Tasks : HSend(t)
    \/ WsDrain("ok")
    \/ \E f \in {"err", "none"} : WsBreak(f)
    \/ \E o \in {"ok", "err"} : WsShutdown(o)
    \/ \E t \in Tasks : BlockingFinish(t)

SpecChan == InitChan /\ [][NextChan]_vars

(* ============================ the claims ============================== *)
IsFileDoesntExist(r) ==
    /\ r.tag = "Ok"
    /\ r.reply # None
    /\ r.reply[1].kind = "Error"
    /\ r.reply[1].errkind = "FileDoesntExist"

\* C1 (as the claim states it): when upload_file has returned and every
\* POST it made failed at the HTTP level, it has made exactly
\* max_upload_attempts POSTs.
C1_ExactlyNAttempts ==
    \A t \in Tasks :
        ( /\ hPc[t] = "ret"
          /\ hMsg[t].kind = "UploadTo"
          /\ hPosts[t] # <<>>
          /\ \A i \in DOMAIN hPosts[t] : hPosts[t][i] = "http_err" )
        => Len(hPosts[t]) = config.max_upload_attempts

\* C2: no POST follows a POST whose HTTP transfer succeeded, and every POST
\* is made on a file opened for that attempt (as many opens as POSTs made
\* or under way).
C2_StopOnSuccessFreshOpen ==
    \A t \in Tasks :
        /\ \A i \in DOMAIN hPosts[t] :
              hPosts[t][i] = "http_ok"
              => i = Len(hPosts[t]) /\ hPc[t] \notin {"open", "post"}
        /\ hOpens[t] = Len(hPosts[t]) + (IF hPc[t] = "post" THEN 1 ELSE 0)

\* C2's case: a second attempt was made after a failed one, it succeeded,
\* and upload_file returned
C2_Witness ==
    /\ hPc[1] = "ret"
    /\ hPosts[1] = <<"join_err", "http_ok">>
    /\ hOpens[1] = 2

\* C3 (as the claim states it, for the shares the sweep removed): when a
\* sweep has returned, it has called remove_file exactly once on the
\* backing file of every share it removed from the table.
C3_SweepDeletesEachOnce ==
    swComplete => \A s \in swRemoved : CountIn(swTried, s.file_id) = 1

\* C4: a share that had exp >= now when a sweep queried the table is not
\* among the records that sweep removed, and that sweep calls remove_file
\* on no file of such a share.
C4_UnexpiredPreserved ==
    \A s \in swKept :
        /\ s \notin swRemoved
        /\ s.file_id \notin Range(swTried)
        /\ s.file_id \notin swDeleted

\* C4's case: the sweep has just removed an expired share while a share
\* with exp = now was in the table
C4_Witness ==
    /\ swPc = "delete"
    /\ swRemoved # {}
    /\ \E s \in swKept : s.exp = now /\ s \in shares /\ s.file_id \in files

\* C5: handle_message has returned Ok for MetadataReq{file_id, upload_id}:
\* with no share of that id in the table the reply is
\* Error{FileDoesntExist}; with one, it is the MetadataRes holding that
\* share's file_id, exp, crt, file_size, user name and file name and the
\* request's upload_id.
C5_MetadataMirror ==
    \A t \in Tasks :
        (hPc[t] = "ret" /\ hMsg[t].kind = "MetadataReq" /\ hRes[t].tag = "Ok")
        => LET m == hMsg[t]
               found == {s \in shares : s.file_id = m.file_id}
           IN IF found = {}
              THEN IsFileDoesntExist(hRes[t])
              ELSE \E s \in found :
                     hRes[t].reply =
                       <<[kind |-> "MetadataRes", file_id |-> s.file_id,
                          exp |-> s.exp, crt |-> s.crt,
                          file_size |-> s.file_size,
                          username |-> s.user_name,
                          file_name |-> s.file_name,
                          upload_id |-> m.upload_id]>>

\* C5's case: a MetadataReq for a stored share has been answered
C5_Witness ==
    /\ hPc[1] = "ret"
    /\ hMsg[1].kind = "MetadataReq"
    /\ hMsg[1].file_id \in Ids(shares)
    /\ hRes[1].tag = "Ok"
    /\ hRes[1].reply[1].kind = "MetadataRes"

\* C6: for UploadTo{file_id, upload_url} with no share of that id in the
\* table, the handler never opens a file, never POSTs, never enters
\* upload_file, and what it returns on a successful lookup is
\* Error{FileDoesntExist}.
C6_UnknownUploadNoExecutor ==
    \A t \in Tasks :
        (hMsg[t].kind = "UploadTo" /\ hMsg[t].file_id \notin Ids(shares)
         /\ hPc[t] # "idle")
        => /\ hOpens[t] = 0
           /\ hPosts[t] = <<>>
           /\ hPc[t] \in {"start", "lookup", "ret"}
           /\ hBlk[t] # "post"
           /\ (hPc[t] = "ret" /\ hRes[t].tag = "Ok")
              => IsFileDoesntExist(hRes[t])

\* C6's case: the UploadTo for an unknown id has been answered
C6_Witness ==
    /\ hPc[1] = "ret"
    /\ hMsg[1].kind = "UploadTo"
    /\ hMsg[1].file_id \notin Ids(shares)
    /\ IsFileDoesntExist(hRes[1])
    /\ hRes[1].reply[1].reason = Some(7)

\* positions in the write history of the reply frames of task t
ReplyAt(t) == {k \in DOMAIN wire : wire[k].kind = "reply" /\ wire[k].task = t}
\* task j sent its result to the channel before task i did
SentBefore(j, i) ==
    \E a, b \in DOMAIN sent : a < b /\ sent[a] = j /\ sent[b] = i

\* C7: tasks are numbered in the order their messages were received.  When
\* M1 (task i) was received before M2 (task j) and M2's handler sent its
\* result first, then at the time a reply frame of M1 is on the connection
\* M2's result has left the channel and every reply frame of M2 was written
\* before it; and when no write has failed and M2 is a MetadataReq (which
\* always has a reply), M2's reply frame is on the connection before M1's.
C7_CompletionOrder ==
    \A i, j \in Range(handles) :
        (i < j /\ SentBefore(j, i))
        => \A k \in ReplyAt(i) :
              /\ \A x \in Range(chan) : x.task # j
              /\ \A l \in ReplyAt(j) : l < k
              /\ (res = "Ok" /\ ~peerClosed /\ hMsg[j].kind = "MetadataReq")
                 => \E l \in ReplyAt(j) : l < k

\* C7's case: M1 then M2 were received, M2's handler finished first, and
\* both replies are on the connection, M2's first
C7_Witness ==
    /\ handles = <<1, 2>>
    /\ sent = <<2, 1>>
    /\ \E k \in ReplyAt(1), l \in ReplyAt(2) : l < k

\* C8: whenever run is about to connect again (after a failed connect or
\* after a session that returned Ok or Err), it has slept at least the
\* configured reconnect delay and at least the floor since that iteration's
\* work ended.
C8_BackoffBeforeConnect ==
    (supPc = "connect" /\ supTries > 0)
    => /\ supSlept >= config.reconnect_delay_minutes * 60
       /\ supSlept >= MIN_RECONNECT_DELAY

\* C8's case: run is about to connect for the third time or later; a
\* session has ended in Err before, and the last connect attempt failed
C8_Witness ==
    /\ supPc = "connect"
    /\ supTries = 2
    /\ wsRet = "Err"
    /\ wsPc = "none"
    /\ supSlept >= MIN_RECONNECT_DELAY

\* C9 (as the claim states it): when handle_ws has returned, no handler
\* invocation it spawned is still running, and neither is any blocking
\* work (lookup, POST) such an invocation started.
C9_NothingRunsAfterExit ==
    wsPc = "returned"
    => \A t \in Range(handles) : ~Live(t) /\ hBlk[t] = "none"

\* C10: handle_ws does not reach close, nor return, without having issued
\* the aborts; it does not return without having called close; once the
\* aborts are issued no recorded task is live and no frame is written to
\* the connection any more.
C10_AbortThenClose ==
    /\ wsPc \in {"close", "returned"} => abortedAt >= 0
    /\ closedAt >= 0 => abortedAt >= 0
    /\ wsPc = "returned" => closedAt >= 0
    /\ abortedAt >= 0
       => /\ Len(wire) = abortedAt
          /\ \A t \in Range(handles) : ~Live(t)
    /\ closedAt >= 0 => Len(wire) = closedAt

\* C10's case: handle_ws has returned from a session in which a reply was
\* written, one task was cancelled by the aborts and a finished task's
\* result was still in the channel
C10_Witness ==
    /\ wsPc = "returned"
    /\ Len(handles) = 2
    /\ \E t \in Range(handles) : hPc[t] = "aborted"
    /\ \E k \in DOMAIN wire : wire[k].kind = "reply"
    /\ abortedAt = Len(wire)

\* C11: run is always in its loop (connecting, in a session, or asleep),
\* whatever connects and sessions returned; whenever a connect has failed or
\* a session has ended (handle_ws returned Ok or Err), run is eventually
\* connecting again.
C11_RunNeverStops ==
    /\ [](supPc \in {"connect", "session", "sleep"})
    /\ (supPc = "sleep") ~> (supPc = "connect")
    /\ (wsPc = "returned") ~> (supPc = "connect")

\* C11's case: after an earlier iteration, a second session has returned
\* Err and run is asleep before its next connect
C11_Witness ==
    /\ supPc = "sleep"
    /\ supTries = 2
    /\ wsRet = "Err"
    /\ supSlept > 0

\* C12: when the read loop was ended by a binary frame that does not
\* decode, handle_ws has left the loop with res = Err, no handler was
\* spawned for that frame (there are no more handlers than frames read
\* before it), what handle_ws returns is Err, and run is eventually
\* connecting again.
C12_DecodeFailureEndsSession ==
    /\ [](exitBy = "bad_binary"
          => /\ wsPc \in {"close", "returned"}
             /\ res = "Err"
             /\ Len(handles) <= frames
             /\ wsPc = "returned" => wsRet = "Err"
             /\ supPc = "session")
    /\ (exitBy = "bad_binary") ~> (supPc = "connect")

\* C12's case: a request was dispatched, then a frame that does not decode
\* arrived, and handle_ws has returned Err
C12_Witness ==
    /\ exitBy = "bad_binary"
    /\ wsPc = "returned"
    /\ wsRet = "Err"
    /\ Len(handles) = 1
    /\ frames = 1

C14_CloseFrameCleanExit ==
    (peerClosed /\ wsPc \in {"close", "returned"}) => res = "Ok"

\* C15: when the read loop was ended by a read error, handle_ws is past
\* the loop with res = Err and what it returns is Err; from the error on,
\* the session reads no frame, spawns no handler and writes no frame.
C15_ReadErrorEndsSession ==
    /\ [](exitBy = "err"
          => /\ wsPc \in {"close", "returned"}
             /\ res = "Err"
             /\ wsPc = "returned" => wsRet = "Err")
    /\ [][(exitBy = "err" /\ exitBy' = "err")
          => /\ frames' = frames
             /\ pings' = pings
             /\ handles' = handles
             /\ wire' = wire]_vars

\* C15's case: after a frame was handled, a read error ended the loop and
\* handle_ws has returned Err
C15_Witness ==
    /\ exitBy = "err"
    /\ wsPc = "returned"
    /\ wsRet = "Err"
    /\ frames > 0
    /\ ~peerClosed

\* C16: while handle_ws has not returned, any two reply frames on the
\* connection are there in the order in which their results were put on
\* the channel, and the result of a reply on the connection is no longer
\* in the channel.
C16_FifoReplies ==
    wsPc \in {"drain", "read", "close"}
    => \A k, l \in DOMAIN wire :
          (wire[k].kind = "reply" /\ wire[l].kind = "reply")
          => /\ k < l => SentBefore(wire[k].task, wire[l].task)
             /\ \A x \in Range(chan) : x.task # wire[k].task

\* C16's case: two results were on the channel together, the first
\* request's first, and both replies have been written
C16_Witness ==
    /\ sent = <<1, 2>>
    /\ wsPc = "drain"
    /\ Len(wire) = 2
    /\ wire[1].kind = "reply" /\ wire[1].task = 1
    /\ wire[2].kind = "reply" /\ wire[2].task = 2

\* the tasks of a sequence of channel items or of reply frames
TasksOf(q) == [i \in DOMAIN q |-> q[i].task]

\* C17: the channel never holds more than CHANNEL_CAPACITY results; a
\* handler of a live session that finds it full waits in its send, holding
\* its result, which is not yet among the results sent; while the session is in
\* its loop every result sent is on the connection or still in the channel,
\* in the order sent (none dropped, none overwritten).
C17_BackPressure ==
    /\ Len(chan) <= CHANNEL_CAPACITY
    /\ wsPc \in {"drain", "read"}
       => /\ \A t \in Tasks :
                (hPc[t] = "ret" /\ t \in Range(handles))
                => /\ hRes[t].tag = "Ok"
                   /\ \A x \in Range(chan) : x.task # t
                   /\ t \notin Range(sent)
          /\ TasksOf(wire) \o TasksOf(chan) = sent

\* C17's case: the channel is full, one handler waits in its send, and the
\* dispatcher is about to take a result
C17_Witness ==
    /\ Len(chan) = CHANNEL_CAPACITY
    /\ wsPc = "drain"
    /\ hPc[2] = "ret"
    /\ sent[Len(sent)] = 1

\* handle_ws takes the error result of a handler from the channel
TakesHandlerErr ==
    /\ wsPc = "drain"
    /\ chan # <<>>
    /\ ChanRecv(chan).item.r.tag = "Err"
    /\ chan' = ChanRecv(chan).rest

\* C18: taking a handler's error from the channel writes nothing to the
\* peer and ends nothing: handle_ws keeps the error in res and goes on to
\* read, no task is aborted and the connection is not closed; a session
\* that holds an error still dispatches the next request its peer sends.
C18_HandlerFailureIsolated ==
    /\ [][TakesHandlerErr
          => /\ wire' = wire
             /\ res' = "Err"
             /\ wsPc' = "read"
             /\ handles' = handles
             /\ hPc' = hPc
             /\ abortedAt' = abortedAt /\ abortedAt = -1
             /\ closedAt' = closedAt /\ closedAt = -1]_vars
    /\ []((wsPc = "read" /\ res = "Err" /\ ~peerClosed
           /\ frames < MaxFrames /\ Len(handles) < MaxTasks)
          => ENABLED WsBinary(MetadataReq(1, 8)))

\* C18's case: the handler of the first request, an UploadTo of a stored
\* share (its result is an error or Ok(None)), has sent its result and res
\* holds an error though every reply was written: the handler failed.  The
\* request read after it was dispatched and its reply is written, in a
\* session still in its loop
C18_Witness ==
    /\ wsPc \in {"drain", "read"}
    /\ res = "Err"
    /\ handles = <<1, 2>>
    /\ hMsg[1] = UploadTo(1, UrlOf(7))
    /\ GetShareById(shares, 1) # None
    /\ sent = <<1, 2>>
    /\ chan = <<>>
    /\ Len(wire) = 1
    /\ wire[1].kind = "reply"
    /\ wire[1].task = 2
    /\ wire[1].msg.kind = "MetadataRes"

\* the POST outcomes q are those of one run of upload_file's loop under the
\* limit max: every POST but the last was followed by another attempt, and
\* the last one ended the loop
OneUploadRun(q, max) ==
    /\ Len(q) >= 1
    /\ \A i \in DOMAIN q :
          UploadMatch(PostRes(q[i]), CountIn(SubSeq(q, 1, i - 1), "join_err"),
                      max).brk <=> i = Len(q)

\* C19: an UploadTo whose lookup found the share hands that share to
\* upload_file and never fails; when handle_message returns, the upload loop
\* has run once to its end (each attempt opened the file, the last POST has
\* returned and nothing is left running) and the value returned is Ok(None),
\* whether a POST came back or the attempts were used up.
C19_UploadToNoReply ==
    \A t \in Tasks :
       (hMsg[t].kind = "UploadTo" /\ hItem[t] # None)
       => /\ hItem[t] = GetShareById(shares, hMsg[t].file_id)
          /\ hPc[t] \in {"open", "post", "ret"}
          /\ hRes[t] \in {RUnset, ROk(None)}
          /\ hPc[t] = "ret"
             <=> /\ hRes[t] = ROk(None)
                 /\ hBlk[t] = "none"
                 /\ hOpens[t] = Len(hPosts[t])
                 /\ OneUploadRun(hPosts[t], config.max_upload_attempts)

\* C19's case: every attempt of an upload failed to join, the upload was
\* abandoned at the limit and handle_message has returned
C19_Witness ==
    /\ hMsg[1].kind = "UploadTo"
    /\ hItem[1] # None
    /\ hPc[1] = "ret"
    /\ hPosts[1] = <<"join_err", "join_err">>
    /\ config.max_upload_attempts = 2

\* C20: with a private key configured, an AuthReq is answered at once,
\* whatever its public_id and with no lookup in the store: the value
\* returned is Ok(Some(AuthRes)) carrying the request's public_id and the
\* configured private key.
C20_AuthReqEcho ==
    \A t \in Tasks :
       (hMsg[t].kind = "AuthReq" /\ config.private_key # None)
       => /\ hPc[t] \in {"start", "ret"}
          /\ hBlk[t] = "none"
          /\ hItem[t] = None
          /\ hPc[t] = "ret"
             => hRes[t] = ROk(Some([kind |-> "AuthRes",
                                    public_id |-> hMsg[t].public_id,
                                    passcode |-> config.private_key[1]]))

\* C20's case: an AuthReq whose public_id is not the agent's own has been
\* answered
C20_Witness ==
    /\ hMsg[1] = AuthReq(42)
    /\ config.public_id = Some(41)
    /\ config.private_key = Some("key")
    /\ hPc[1] = "ret"
    /\ hRes[1].tag = "Ok"

\* C21: with the agent registered (a public id configured), a StatusReq is
\* answered at once, against any store and with no lookup: the value
\* returned is Ok(Some(StatusRes)) with ready = true and the request's
\* upload_id.
C21_StatusReqReady ==
    \A t \in Tasks :
       (hMsg[t].kind = "StatusReq" /\ config.public_id # None)
       => /\ hPc[t] \in {"start", "ret"}
          /\ hBlk[t] = "none"
          /\ hPc[t] = "ret"
             => /\ hRes[t].tag = "Ok"
                /\ hRes[t].reply # None
                /\ hRes[t].reply[1].kind = "StatusRes"
                /\ hRes[t].reply[1].ready = TRUE
                /\ hRes[t].reply[1].upload_id = hMsg[t].upload_id

\* C21's case: a StatusReq has been answered by an agent whose store is
\* empty
C21_Witness ==
    /\ hMsg[1] = StatusReq(42, 9)
    /\ config.public_id = Some(41)
    /\ shares = {}
    /\ hPc[1] = "ret"
    /\ hRes[1].tag = "Ok"

\* C22: in a session whose requests are Ok, Error and variants the agent
\* does not handle, every handler result is Ok(None), no reply frame is ever
\* written, and the session result stays a success while the session is in
\* its loop: only a failed read, decode or pong ends it in an error.
C22_QuietRequests ==
    /\ \A t \in Range(handles) : hMsg[t] \in QuietRequests
    /\ \A x \in Range(chan) : x.r = ROk(None)
    /\ \A k \in DOMAIN wire : wire[k].kind # "reply"
    /\ wsPc \in {"drain", "read"} => res = "Ok"
    /\ res = "Err" => exitBy \in {"bad_binary", "raw", "err", "pong_err"}

\* C22's case: an Error and an unsupported message were handled and their
\* results taken from the channel; nothing was written and the session
\* reads on
C22_Witness ==
    /\ handles = <<1, 2>>
    /\ hMsg[1] = MsgError("FileDoesntExist", None)
    /\ hMsg[2] = MsgOther
    /\ sent = <<1, 2>>
    /\ chan = <<>>
    /\ wire = <<>>
    /\ wsPc = "read"
    /\ res = "Ok"

\* C23: the sweeper task is always asleep or sweeping, whatever a sweep
\* returned; every sweep, failed or not, is followed by a sleep of one
\* interval; and a sweeper whose sleep is over wakes, with or without a
\* connection.
C23_SweeperKeepsTicking ==
    /\ [](swPc \in {"sleep", "query", "delete"})
    /\ [][(swPc \in {"query", "delete"} /\ swPc' # swPc)
          => (swPc' \in {"sleep", "delete"}
              /\ (swPc' = "sleep" => swWake' = now + SWEEP_INTERVAL))]_vars
    /\ [](swPc = "sleep" => swWake <= now + SWEEP_INTERVAL)
    /\ []((swPc = "sleep" /\ now >= swWake) => ENABLED SwWake)

\* C23's case: the last sweep failed, an interval has passed and the
\* sweeper is in its next sweep, while the agent is between connections
C23_Witness ==
    /\ swPc = "query"
    /\ swExpired # {}
    /\ swRemoved = {}
    /\ supPc = "sleep"

\* what run, the sessions, the handler tasks and the monitor task own,
\* but for what a blocking closure writes (hBlk, the shares table)
AsyncState ==
    <<files, swWake, swList, swTried, swDeleted, swComplete, hMsg, hItem,
      hA, hRes, hOpens, hPosts, sessVars, supVars>>

\* C24: main leaves its select loop exactly when the interrupt arrives or a
\* reload check returns Ok(true), and it never goes back; once the runtime
\* is being dropped no task takes a step (only blocking closures already
\* handed over run to their end), and once the process has exited nothing of
\* the supervisor, the sessions, the handlers or the sweeper changes.
C24_OrchestratorShutdown ==
    /\ [](mainPc = "wait" <=> mainCause = "-")
    /\ [][mainPc # "wait" => (mainPc' # "wait" /\ mainCause' = mainCause)]_vars
    /\ [][(mainPc \in {"dropping", "exited"})
          => (AsyncState' = AsyncState /\ hPc' = hPc
              /\ swPc' \in {swPc, "dropped"})]_vars
    /\ [][mainPc = "exited"
          => UNCHANGED <<shares, files, sweepVars, taskVars, sessVars,
                         supVars, mainPc>>]_vars

\* C24's case: the interrupt ended the agent while a session was reading
\* and a handler awaited its lookup; the process has exited
C24_Witness ==
    /\ mainPc = "exited"
    /\ mainCause = "sigint"
    /\ wsPc = "read"
    /\ hPc[1] = "aborted"

\* C25: while main waits, a reload check can always run; the check that
\* finds the marker and removes it makes main leave its loop for a reload,
\* main leaves for a reload only by such a check, so a removed marker is
\* never looked for again; and the configuration loaded at the start is the
\* one the agent holds to its end.
C25_ReloadRequest ==
    /\ []((mainPc = "wait" /\ marker) => ENABLED MainReloadCheck("ok"))
    /\ [][(marker /\ ~marker')
          => (mainPc = "wait" /\ mainPc' = "left"
              /\ mainCause' = "reload")]_vars
    /\ [][(mainCause = "-" /\ mainCause' = "reload")
          => (marker /\ ~marker')]_vars
    /\ [][config' = config]_vars

\* C25's case: the cli asked for a reload while a session ran, a check
\* removed the marker and the agent has exited with the configuration it
\* started with
C25_Witness ==
    /\ mainCause = "reload"
    /\ mainPc = "exited"
    /\ ~marker
    /\ wsPc = "read"
    /\ config = MkConfig(1, 1, Some("key"), Some(41))

\* C26: no step of run, of a session, of a handler, of the sweeper or of
\* main changes the configuration: to the exit of the agent it is the
\* Config that was loaded, whichever handler of whichever session reads it.
C26_ConfigNeverChanges ==
    /\ [](config = MkConfig(1, 1, Some("key"), Some(41)))
    /\ [][\A f \in DOMAIN config : config'[f] = config[f]]_vars

\* C26's case: after a sweep and in the session of a second connect
\* attempt a handler has read the configuration and returned, and the agent
\* has exited
C26_Witness ==
    /\ mainPc = "exited"
    /\ supTries = 2
    /\ sent = <<1>>
    /\ swComplete
    /\ config.max_upload_attempts = 1

\* C27: while a session is in its loop, the handles it keeps are those of
\* the handler invocations still in flight.
C27_HandlesAreInFlight ==
    wsPc \in {"drain", "read"}
    => Range(handles) = {t \in Tasks : Live(t)}

\* a handler task has taken a step of its own
HandlerStepped ==
    \E t \in Tasks :
       /\ Live(t)
       /\ \/ hPc'[t] \notin {hPc[t], "aborted", "idle"}
          \/ Len(sent') > Len(sent)

\* C28: the connection is used by handle_ws alone and one frame at a time:
\* a step of a handler task reads no frame, writes none and does not close
\* the connection; every step reads at most one frame and writes at most
\* one; and without a session there is no connection to use.
C28_ConnectionExclusive ==
    /\ [][HandlerStepped
          => UNCHANGED <<wire, frames, pings, peerClosed, closedAt, wsPc>>]_vars
    /\ [][(Len(wire') <= Len(wire) + 1 /\ frames' <= frames + 1)]_vars
    /\ [][(wire' # wire \/ frames' # frames \/ closedAt' # closedAt)
          => (supPc = "session" /\ wsPc \in {"drain", "read", "close", "returned"})]_vars
    /\ [](wsPc = "none" => (wire = <<>> /\ frames = 0 /\ closedAt = -1))

\* C28's case: two handlers run, one at its POST and one at its lookup,
\* while handle_ws has answered a ping
C28_Witness ==
    /\ hPc[1] = "post"
    /\ hPc[2] = "lookup"
    /\ wsPc = "read"
    /\ Len(wire) = 1
    /\ wire[1].kind = "pong"

\* C29: a handler is spawned in the step that reads its frame, one per
\* frame and before the next frame is read, so the handles are in the order
\* of arrival; and whatever the handlers spawned so far are doing, a session
\* at its read takes the next request its peer sends.
C29_ArrivalOrderDispatch ==
    /\ [](handles = [i \in 1..Len(handles) |-> i])
    /\ [](Len(handles) <= frames)
    /\ [][(Len(handles') > Len(handles))
          => (/\ wsPc = "read"
              /\ frames' = frames + 1
              /\ Len(handles') = Len(handles) + 1
              /\ hPc'[Len(handles')] = "start"
              /\ \A t \in Range(handles) : hPc'[t] = hPc[t])]_vars
    /\ []((wsPc = "read" /\ supPc = "session" /\ ~peerClosed
           /\ frames < MaxFrames /\ Len(handles) < MaxTasks)
          => ENABLED WsBinary(MetadataReq(2, 8)))

\* C29's case: the handler of the first request is still at its lookup
\* while the request read after it has been handled and answered, and the
\* session reads on
C29_Witness ==
    /\ handles = <<1, 2>>
    /\ hPc[1] = "lookup"
    /\ hPc[2] = "done"
    /\ Len(wire) = 1
    /\ wire[1].kind = "reply"
    /\ wire[1].task = 2
    /\ wsPc = "read"

\* C30: with a reconnect delay of 1 minute configured, run has slept 60
\* seconds when it connects again.
C30_OneMinuteSleep ==
    (supPc = "connect" /\ supTries > 0 /\ config.reconnect_delay_minutes = 1)
    => (supSlept = 60 /\ ReconnectSleep(config) = 60)

\* the items of the stream handle_ws has taken that are messages
OldReceived == SelectSeq(SubSeq(oAll, 1, oPos), LAMBDA x : x # "err")

\* what holds of the earlier handle_ws as long as nothing has panicked: one
\* task per message received, in order, each calling the handler once;
\* replies only for results Ok(Some), one each; Ok(()) is what it returns
OldContract ==
    /\ [i \in DOMAIN oTasks |-> oTasks[i].msg] = OldReceived
    /\ \A i \in DOMAIN oTasks :
          /\ oTasks[i].calls = IF oTasks[i].st = "spawned" THEN 0 ELSE 1
          /\ Cardinality({k \in DOMAIN (oInternal \o oSent) :
                             (oInternal \o oSent)[k].task = i})
             <= IF oTasks[i].msg = "ask" /\ oTasks[i].st = "done"
                THEN 1 ELSE 0
    /\ \A k \in DOMAIN oSent : oSent[k].msg = "answer"
    /\ oPc \in {"loop", "returned"}
    /\ oPc = "returned" => oPos = Len(oAll)

C32_PendingReplyNeedsNoFrame ==
    (/\ supPc = "session"
     /\ wsPc \in {"drain", "read"}
     /\ \E k \in DOMAIN chan : chan[k].r.reply # None)
       => ENABLED WsDrain("ok")

\* handle_ws takes a reply from the channel and fails to encode or write it
ReplyWriteFails ==
    /\ wsPc = "drain"
    /\ chan # <<>>
    /\ ChanRecv(chan).item.r.tag = "Ok"
    /\ ChanRecv(chan).item.r.reply # None
    /\ chan' = ChanRecv(chan).rest
    /\ wire' = wire

\* C33: a reply that cannot be encoded or written ends the session's loop
\* with an error, and no further frame is read.
C33_ReplyWriteFailureEndsSession ==
    [][ReplyWriteFails
       => (res' = "Err" /\ wsPc' = "close" /\ exitBy' # "-")]_vars

\* C34: when a sweep is over, remove_file has been called for the backing
\* file of every record the sweep removed, whether or not an earlier
\* remove_file of the same sweep failed.
C34_NoOrphanedFiles ==
    swComplete => {s.file_id : s \in swRemoved} \subseteq Range(swTried)

\* C35: once an UploadTo handler has found the share in the store, the
\* share's backing file is present whenever upload_file is about to open it,
\* under every interleaving with the sweeper.
C35_FilePresentAtOpen ==
    \A t \in Tasks :
       (hMsg[t].kind = "UploadTo" /\ hItem[t] # None /\ hPc[t] = "open")
          => hMsg[t].file_id \in files

\* handler t's lookup returns while the share it asks for is in the table
\* with exp < now
LooksUpExpired(t) ==
    /\ hPc[t] = "lookup"
    /\ hPc'[t] # "lookup"
    /\ \E s \in shares : s.file_id = hMsg[t].file_id /\ s.exp < now

\* C36: a MetadataReq or UploadTo that names a share with exp < now when it
\* is handled is answered as for an unknown file: the handler gets no
\* record, so there is no MetadataRes and no upload.
C36_ExpiredNotServed ==
    [][\A t \in Tasks :
          LooksUpExpired(t)
             => (hItem'[t] = None /\ hPc'[t] # "open"
                 /\ (hRes'[t].tag = "Ok" /\ hRes'[t].reply # None
                        => hRes'[t].reply[1].kind = "Error"))]_vars

\* C37: a session exists only while run awaits it, so there is never more
\* than one; run leaves a session only when handle_ws has aborted its tasks,
\* called close and returned, and a connect attempt starts with no session,
\* no handle, no queued reply and no frame of an earlier connection.
C37_SingleLiveSession ==
    /\ [](wsPc # "none" <=> supPc = "session")
    /\ [](supPc = "connect"
             => (handles = <<>> /\ chan = <<>> /\ wire = <<>> /\ frames = 0))
    /\ [][(supPc = "session" /\ supPc' # "session")
             => (wsPc = "returned" /\ abortedAt >= 0 /\ closedAt >= 0
                 /\ wsPc' = "none" /\ handles' = <<>>)]_vars
    /\ [][(wsPc = "none" /\ wsPc' # "none")
             => (supPc = "connect" /\ supPc' = "session")]_vars

\* run is about to connect again after a session that returned
C37_Witness ==
    /\ supPc = "connect"
    /\ wsPc = "none"
    /\ wsRet # "-"
    /\ supTries >= 1

\* the indexes of the reply frames written on the session's connection
WireReplies == {k \in DOMAIN wire : wire[k].kind = "reply"}

\* C38: every reply frame on the session's connection answers one frame
\* received on this session (it is what the handler of that frame returns),
\* no received frame is answered twice, and the channel and the connection
\* of a session hold nothing when the session begins.
C38_ReplyProvenance ==
    /\ \A k \in WireReplies :
          LET t == wire[k].task
          IN /\ t \in Range(handles)
             /\ hMsg[t].kind = "MetadataReq"
             /\ Some(wire[k].msg)
                   = MetadataReply(GetShareById(shares, hMsg[t].file_id),
                                   hMsg[t].upload_id).reply
             /\ \A j \in WireReplies : wire[j].task = t => j = k
             /\ \A j \in DOMAIN chan : chan[j].task # t
    /\ \A j \in DOMAIN chan : chan[j].task \in Range(handles)
    /\ \A i, j \in DOMAIN chan : chan[i].task = chan[j].task => i = j
    /\ wsPc = "none" => (chan = <<>> /\ wire = <<>> /\ handles = <<>>)

\* a session that has written the replies to two of its frames
C38_Witness ==
    /\ wsPc \in {"drain", "read"}
    /\ \E i, j \in WireReplies :
          /\ i < j
          /\ wire[i].task # wire[j].task
          /\ wire[i].msg.kind = "MetadataRes"
          /\ wire[j].msg.kind = "Error"

\* C39: a failure recorded in `res` during the loop stays recorded: no
\* frame read later, a close frame included, makes `res` a non-failure, and
\* handle_ws returns a failure.
C39_FailureIsSticky ==
    /\ [][(res = "Err" /\ wsPc \in {"drain", "read", "close"})
             => res' = "Err"]_vars
    /\ [][(res = "Err" /\ wsPc = "close" /\ wsPc' = "returned")
             => wsRet' = "Err"]_vars

\* handler t's upload_file opens a backing file that is not on disk
OpensMissing(t) ==
    /\ hPc[t] = "open"
    /\ hMsg[t].file_id \notin files
    /\ hPc'[t] \notin {"open", "aborted", "idle"}

\* C40: a handler that panics ends alone: it sends nothing on the channel
\* and nothing of the session or of another task changes with it; the
\* session goes on taking results and reading frames, and when it leaves the
\* loop it still aborts, closes and returns.
C40_PanicIsolated ==
    /\ [][\A t \in Tasks :
             OpensMissing(t)
                => (/\ hPc'[t] = "panicked"
                    /\ UNCHANGED <<sessVars, supVars>>
                    /\ \A u \in Tasks \ {t} : hPc'[u] = hPc[u])]_vars
    /\ [](\A t \in Tasks :
             hPc[t] = "panicked"
                => (/\ t \notin Range(sent)
                    /\ \A k \in DOMAIN chan : chan[k].task # t
                    /\ \A k \in WireReplies : wire[k].task # t))
    /\ []((\E t \in Tasks : hPc[t] = "panicked")
             => (/\ wsPc = "drain" => ENABLED WsDrain("ok")
                 /\ (wsPc = "read" /\ Len(handles) < MaxTasks
                     /\ frames < MaxFrames)
                       => ENABLED WsBinary(MetadataReq(1, 8))
                 /\ wsPc = "close" => (abortedAt >= 0 /\ ENABLED WsShutdown("ok"))
                 /\ wsPc = "returned" => (abortedAt >= 0 /\ closedAt >= 0)))

\* the first handler panicked at the open, the frame after it was answered,
\* and the session has left its loop, aborted, closed and returned
C40_Witness ==
    /\ hPc[1] = "panicked"
    /\ hMsg[1].kind = "UploadTo"
    /\ \E k \in WireReplies : wire[k].task = 2
    /\ wsPc = "returned"
    /\ abortedAt >= 0
    /\ closedAt >= 0

====
